---- MODULE Spec2Model ----
(***************************************************************************)
(* A model of pyspod/spod_base.py (class SPOD_base): the parameter         *)
(* resolver parse_parameters, the data handler and get_data, the cache     *)
(* check _are_blocks_present, the getter get_modes_at_freq, the projector *)
(* get_coefficients and the emulator data preparer build_emulator.         *)
(*                                                                         *)
(* Numbers.  Python floats that stay integral are integers here.  The      *)
(* quantities that can carry a fraction before the int() casts (n_DFT,     *)
(* window coefficients, frequencies, the mean) are exact rationals <<p,q>> *)
(* with q > 0.  The samples of a Hamming window are kept symbolic.         *)
(* Indices are 0-based as in the source; TLA+ sequences are 1-based, so    *)
(* element i of a Python array a is a[i+1].                                *)
(***************************************************************************)
EXTENDS Integers, Sequences, FiniteSets, TLC

VARIABLES
    self,     \* the fields of the SPOD_base object read by the operations
    params,   \* the params dictionary handed to the constructor
    pc,       \* which operation has run
    ret,      \* parse_parameters: its locals at the return or at the raise
    req,      \* get_data, get_modes_at_freq: the arguments of the call
    X,        \* get_data, get_modes_at_freq: the outcome of the call
    fs,       \* the files of save_dir_blocks: name -> content
    present,  \* _are_blocks_present: the arguments and the value returned
    proj,     \* get_coefficients: whether it ran and its outcome
    emu       \* build_emulator: the tensors built

vars == <<self, params, pc, ret, req, X, fs, present, proj, emu>>

----------------------------------------------------------------------------
(* Bounds of the input sets *)

MaxNt == 12
DefaultNt == 40
MaxNFFT == 8
MaxWinLen == 5
MaxWeights == 5
MaxNx == 2
MaxNv == 2
MaxFrames == 6
MaxCacheBlocks == 3
MaxCacheFreq == 2
MaxMissing == 2
MaxBlocks == 10
MaxProjFreq == 2
MaxModes == 3
MaxSplitBlocks == 90
MaxAvailUnits == 40

----------------------------------------------------------------------------
(* Exact rationals <<p, q>>, q > 0 *)

Rat(p, q) == <<p, q>>

RatEq(a, b) == a[1] * b[2] = b[1] * a[2]

RatLess(a, b) == a[1] * b[2] < b[1] * a[2]

\* np.floor of a rational
RatFloor(a) == a[1] \div a[2]

\* np.ceil of a rational
RatCeil(a) == -((-a[1]) \div a[2])

\* int() of a rational: truncation toward zero
RatInt(a) == IF a[1] >= 0 THEN a[1] \div a[2] ELSE -((-a[1]) \div a[2])

----------------------------------------------------------------------------
(* Strings: str.lower() on the keywords the model feeds in *)

Lower(s) ==
    CASE s = "DEFAULT"  -> "default"
      [] s = "Default"  -> "default"
      [] s = "LongTime" -> "longtime"
      [] s = "BLOCKWISE" -> "blockwise"
      [] s = "Zero"     -> "zero"
      [] OTHER          -> s

----------------------------------------------------------------------------
(* Exceptions *)

NoExc == [type |-> "none", at |-> "", args |-> <<>>]

Exc(type, at, args) == [type |-> type, at |-> at, args |-> args]

Raised(e) == e.exc.type # "none"

----------------------------------------------------------------------------
(* The default data handler and the data it reads.  An array is a record   *)
(* [a, ndim]: a is the sequence of its frames along the time axis, a frame *)
(* being the flattened field of one time index (nx*nv integers), and ndim  *)
(* the number of axes.                                                     *)

\* data[ti, ..., :] for one index ti: numpy wraps a negative index once and
\* raises IndexError out of bounds
IndexOk(data, i) == -Len(data.a) <= i /\ i < Len(data.a)

Frame(data, i) == IF i >= 0 THEN data.a[i + 1] ELSE data.a[Len(data.a) + i + 1]

\* np.arange(a, b) as a sequence
Arange(a, b) == [k \in 1..(IF b > a THEN b - a ELSE 0) |-> a + k - 1]

\* data[ti, ..., :] for an index array ti
TakeFrames(data, ti, ndim) ==
    IF \E k \in 1..Len(ti) : ~IndexOk(data, ti[k])
    THEN [exc |-> Exc("IndexError", "data_handler", <<"index out of bounds">>),
          a |-> <<>>, ndim |-> 0]
    ELSE [exc |-> NoExc, a |-> [k \in 1..Len(ti) |-> Frame(data, ti[k])],
          ndim |-> ndim]

\* an index array without the single-sample case
TimeIndicesPlain(t_0, t_end) == Arange(t_0, t_end)

\* the index array ti of both handlers
TimeIndices(t_0, t_end) ==
    IF t_0 = t_end THEN Arange(t_0, t_0 + 1) ELSE Arange(t_0, t_end)

\* spod_base.py lines 51-55, the handler installed when none is given
data_handler(data, t_0, t_end) ==
    TakeFrames(data, TimeIndices(t_0, t_end), data.ndim)

\* simulations/ERA5_MSLP_2D.py lines 40-46, a caller's handler: the frames of
\* the last variable, without a variable axis
read_data(data, t_0, t_end) ==
    TakeFrames(data, TimeIndices(t_0, t_end), data.ndim - 1)

\* spod_base.py lines 489-503.  self._data_handler is never false: __init__
\* installs the default handler when none is given (line 57), so the branch
\* of line 502 is not reachable.
get_data(s, t_0, t_end) ==
    LET r == IF s.handler = "default" THEN data_handler(s.data, t_0, t_end)
             ELSE read_data(s.data, t_0, t_end)
    IN  IF r.exc.type # "none" THEN r
        ELSE IF s.nv = 1 /\ r.ndim # s.xdim + 2 THEN [r EXCEPT !.ndim = @ + 1]
        ELSE r

----------------------------------------------------------------------------
(* get_modes_at_freq.  Memory is counted in bytes: the source multiplies   *)
(* both sides of its comparison by the same positive BYTE_TO_GB.           *)

\* sys.getsizeof(complex()), line 475
SizeofComplex == 32

\* lines 474-475: gb_memory_modes
MemoryForModes(s, freq_idx) == freq_idx * s.nx * s.n_modes_saved * SizeofComplex

\* lines 467-487; avail is psutil.virtual_memory()[1].  The outcome holds the
\* files handed to get_mode_from_file and the modes it returned.
get_modes_at_freq(s, freq_idx, avail, files) ==
    LET none == [exc |-> NoExc, loaded |-> <<>>, m |-> <<>>]
    IN  IF s.modes.t = "None"
        THEN [none EXCEPT !.exc = Exc("ValueError", "modes",
                                      <<"Modes not found. Consider running fit()">>)]
        ELSE IF s.modes.t = "dict"
        THEN IF MemoryForModes(s, freq_idx) >= avail
             THEN [none EXCEPT !.exc = Exc("ValueError", "memory",
                       <<"Not enough RAM memory to load modes stored, for all frequencies.">>)]
             ELSE IF freq_idx \notin DOMAIN s.modes.d
             THEN [none EXCEPT !.exc = Exc("KeyError", "modes", <<freq_idx>>)]
             ELSE LET file == s.modes.d[freq_idx]
                  IN  IF file \in DOMAIN files
                      THEN [none EXCEPT !.loaded = <<file>>, !.m = files[file]]
                      ELSE [none EXCEPT !.loaded = <<file>>,
                                        !.exc = Exc("FileNotFoundError", "modes", file)]
        ELSE [none EXCEPT !.exc = Exc("TypeError", "modes", <<"Modes must be a dictionary">>)]

----------------------------------------------------------------------------
(* The files of save_dir_blocks and _are_blocks_present.  A file name is   *)
(* the tuple of its literal parts and its formatted numbers, a formatted   *)
(* number being its sequence of decimal digits.                            *)

RECURSIVE Digits(_)
\* the decimal digits of n >= 0, most significant first
Digits(n) == IF n < 10 THEN <<n>> ELSE Append(Digits(n \div 10), n % 10)

RECURSIVE ZeroPad(_, _)
ZeroPad(d, width) == IF Len(d) >= width THEN d ELSE ZeroPad(<<0>> \o d, width)

\* '{:04d}'.format(n)
Fmt04(n) == ZeroPad(Digits(n), 4)

\* line 520 and line 822
FftName(iBlk, iFreq) == <<"fft_block", Fmt04(iBlk), "_freq", Fmt04(iFreq), ".npy">>

\* line 825
ModesName(n_modes_save, iFreq) ==
    <<"modes1to", Fmt04(n_modes_save), "_freq", Fmt04(iFreq), ".npy">>

\* line 832 and line 845
CoeffsName(n_modes_save, iFreq) ==
    <<"coeffs1to", Fmt04(n_modes_save), "_freq", Fmt04(iFreq), ".npy">>

\* os.path.exists
Exists(files, name) == name \in DOMAIN files

\* lines 517-522: the inner loop from iFreq on
RECURSIVE CountFreq(_, _, _, _, _)
CountFreq(files, iBlk, iFreq, n_freq, all_freq_exist) ==
    IF iFreq >= n_freq THEN all_freq_exist
    ELSE CountFreq(files, iBlk, iFreq + 1, n_freq,
                   IF Exists(files, FftName(iBlk, iFreq))
                   THEN all_freq_exist + 1 ELSE all_freq_exist)

\* lines 516-526: the outer loop from iBlk on
RECURSIVE CountBlocks(_, _, _, _, _)
CountBlocks(files, iBlk, n_blocks, n_freq, all_blocks_exist) ==
    IF iBlk >= n_blocks THEN all_blocks_exist
    ELSE CountBlocks(files, iBlk + 1, n_blocks, n_freq,
                     IF CountFreq(files, iBlk, 0, n_freq, 0) = n_freq
                     THEN all_blocks_exist + 1 ELSE all_blocks_exist)

\* a check satisfied by one complete block
are_blocks_present_some(n_blocks, n_freq, files) ==
    n_blocks = 0 \/ CountBlocks(files, 0, n_blocks, n_freq, 0) >= 1

\* lines 512-532
are_blocks_present(n_blocks, n_freq, files) ==
    CountBlocks(files, 0, n_blocks, n_freq, 0) = n_blocks

----------------------------------------------------------------------------
(* get_coefficients and build_emulator.  A complex number is the pair of   *)
(* its real and imaginary parts; a matrix is the sequence of its rows.     *)

CAdd(a, b) == <<a[1] + b[1], a[2] + b[2]>>

CMul(a, b) == <<a[1] * b[1] - a[2] * b[2], a[1] * b[2] + a[2] * b[1]>>

\* lines 815-816, 842-843
NModesSave(s, p) == IF p.n_modes_save.t = "int" THEN p.n_modes_save.n ELSE s.n_blocks

\* a block file keyed by frequency first
BlockFileFreqFirst(iBlk, iFreq) == FftName(iFreq, iBlk)

\* lines 821-822: the file of block iBlk at frequency iFreq
BlockFile(iBlk, iFreq) == FftName(iBlk, iFreq)

\* a loader that leaves the column of a missing block at zero
RECURSIVE LoadBlocksZeroFill(_, _, _, _, _)
LoadBlocksZeroFill(s, files, iFreq, iBlk, cols) ==
    IF iBlk >= s.n_blocks THEN [exc |-> NoExc, cols |-> cols]
    ELSE LET name == BlockFile(iBlk, iFreq)
             v == IF Exists(files, name) /\ Len(files[name]) = s.nx THEN files[name]
                  ELSE [x \in 1..s.nx |-> <<0, 0>>]
         IN  LoadBlocksZeroFill(s, files, iFreq, iBlk + 1, Append(cols, v))

\* lines 820-823: the columns iBlk.. of Q_hat_f.  np.load raises for a
\* missing file; the assignment to a column of nx entries takes a vector of
\* nx entries or broadcasts one entry, and raises otherwise.
RECURSIVE LoadBlocks(_, _, _, _, _)
LoadBlocks(s, files, iFreq, iBlk, cols) ==
    IF iBlk >= s.n_blocks THEN [exc |-> NoExc, cols |-> cols]
    ELSE LET name == BlockFile(iBlk, iFreq)
         IN  IF ~Exists(files, name)
             THEN [exc |-> Exc("FileNotFoundError", "fft_block", name), cols |-> cols]
             ELSE LET v == files[name]
                  IN  IF Len(v) = s.nx
                      THEN LoadBlocks(s, files, iFreq, iBlk + 1, Append(cols, v))
                      ELSE IF Len(v) = 1
                      THEN LoadBlocks(s, files, iFreq, iBlk + 1,
                                      Append(cols, [x \in 1..s.nx |-> v[1]]))
                      ELSE [exc |-> Exc("ValueError", "fft_block", name), cols |-> cols]

\* a reshape that fills the matrix column by column
ReshapeByColumns(flat, n) ==
    IF n <= 0 \/ Len(flat) % n # 0
    THEN [exc |-> Exc("ValueError", "reshape", <<>>), m |-> <<>>]
    ELSE LET rows == Len(flat) \div n
         IN  [exc |-> NoExc,
              m |-> [x \in 1..rows |-> [k \in 1..n |-> flat[(k - 1) * rows + x]]]]

\* line 827: Psi.reshape(-1, n_modes_save) of the loaded values in C order
Reshape(flat, n) ==
    IF n <= 0 \/ Len(flat) % n # 0
    THEN [exc |-> Exc("ValueError", "reshape", <<>>), m |-> <<>>]
    ELSE [exc |-> NoExc,
          m |-> [x \in 1..(Len(flat) \div n) |-> [k \in 1..n |-> flat[(x - 1) * n + k]]]]

\* line 830, Q_hat_f * self._weights: the (nx, n_blocks) matrix of the
\* columns times the (nx*nv, 1) column of weights, by numpy's broadcasting
Weighted(cols, w, nx) ==
    LET rw == Len(w)
        nb == Len(cols)
    IN  IF rw # nx /\ nx # 1 /\ rw # 1
        THEN [exc |-> Exc("ValueError", "broadcast", <<nx, rw>>), m |-> <<>>]
        ELSE LET rows == IF rw = nx THEN nx ELSE IF nx = 1 THEN rw ELSE nx
             IN  [exc |-> NoExc,
                  m |-> [x \in 1..rows |->
                           [b \in 1..nb |->
                              LET q == cols[b][IF nx = 1 THEN 1 ELSE x]
                                  wx == w[IF rw = 1 THEN 1 ELSE x]
                              IN  <<q[1] * wx, q[2] * wx>>]]]

\* the sum over x = 1..n of Psi[x][k] * QW[x][b]
RECURSIVE Dot(_, _, _, _, _)
Dot(Psi, QW, k, b, n) ==
    IF n = 0 THEN <<0, 0>>
    ELSE CAdd(Dot(Psi, QW, k, b, n - 1), CMul(Psi[n][k], QW[n][b]))

\* the product without the final transpose: n_modes_save rows, n_blocks columns
InnerProductUntransposed(Psi, QW, n_modes, n_blocks) ==
    IF Len(Psi) # Len(QW)
    THEN [exc |-> Exc("ValueError", "matmul", <<Len(Psi), Len(QW)>>), m |-> <<>>]
    ELSE [exc |-> NoExc,
          m |-> [k \in 1..n_modes |-> [b \in 1..n_blocks |-> Dot(Psi, QW, k, b, Len(Psi))]]]

\* line 830: np.matmul(Psi.T, QW).T, a matrix of n_blocks rows and
\* n_modes_save columns
InnerProduct(Psi, QW, n_modes, n_blocks) ==
    IF Len(Psi) # Len(QW)
    THEN [exc |-> Exc("ValueError", "matmul", <<Len(Psi), Len(QW)>>), m |-> <<>>]
    ELSE [exc |-> NoExc,
          m |-> [b \in 1..n_blocks |-> [k \in 1..n_modes |-> Dot(Psi, QW, k, b, Len(Psi))]]]

\* lines 818-833: the iterations iFreq.. of the loop; each writes its
\* coefficient file before the next begins
RECURSIVE ProjectLoop(_, _, _, _)
ProjectLoop(s, p, files, iFreq) ==
    IF iFreq >= s.n_freq THEN [exc |-> NoExc, files |-> files]
    ELSE LET n == NModesSave(s, p)
             Q == LoadBlocks(s, files, iFreq, 0, <<>>)
             file_psi == ModesName(n, iFreq)
         IN  IF Q.exc.type # "none" THEN [exc |-> Q.exc, files |-> files]
             ELSE IF ~Exists(files, file_psi)
             THEN [exc |-> Exc("FileNotFoundError", "modes", file_psi), files |-> files]
             ELSE LET Psi == Reshape(files[file_psi], n)
                      QW == Weighted(Q.cols, s.weights, s.nx)
                  IN  IF Psi.exc.type # "none" THEN [exc |-> Psi.exc, files |-> files]
                      ELSE IF QW.exc.type # "none" THEN [exc |-> QW.exc, files |-> files]
                      ELSE LET a_k == InnerProduct(Psi.m, QW.m, n, s.n_blocks)
                               file_a_k == CoeffsName(n, iFreq)
                           IN  IF a_k.exc.type # "none"
                               THEN [exc |-> a_k.exc, files |-> files]
                               ELSE ProjectLoop(s, p,
                                        [f \in DOMAIN files \cup {file_a_k} |->
                                            IF f = file_a_k THEN a_k.m ELSE files[f]],
                                        iFreq + 1)

\* lines 805-833
get_coefficients(s, p, files) == ProjectLoop(s, p, files, 0)

\* the double nearest to 0.7 is 16#16666666666666 * 2^-53; its 53 bits, the
\* least significant first
Bits07 ==
    [i \in 1..53 |-> IF i = 53 \/ i = 51 \/ i = 50 THEN 1
                     ELSE IF i <= 48 /\ (i % 4 = 2 \/ i % 4 = 3) THEN 1 ELSE 0]

\* the bits of bits * n + carry, the least significant first
RECURSIVE MulBits(_, _, _)
MulBits(bits, n, carry) ==
    IF bits = <<>>
    THEN IF carry = 0 THEN <<>> ELSE <<carry % 2>> \o MulBits(<<>>, n, carry \div 2)
    ELSE LET v == Head(bits) * n + carry
         IN  <<v % 2>> \o MulBits(Tail(bits), n, v \div 2)

\* bits + 1
RECURSIVE IncBits(_)
IncBits(bits) ==
    IF bits = <<>> THEN <<1>>
    ELSE IF Head(bits) = 0 THEN <<1>> \o Tail(bits)
    ELSE <<0>> \o IncBits(Tail(bits))

\* the number of the bits
RECURSIVE BitsValue(_)
BitsValue(bits) == IF bits = <<>> THEN 0 ELSE Head(bits) + 2 * BitsValue(Tail(bits))

\* int(0.7 * n) for an integer n >= 1: the exact product of the double 0.7 and
\* n, rounded to 53 bits to the nearest, ties to even, then truncated
IntOfDoubleProduct07(n) ==
    LET P == MulBits(Bits07, n, 0)
        drop == Len(P) - 53
        mant == SubSeq(P, drop + 1, Len(P))
        guard == IF drop >= 1 THEN P[drop] ELSE 0
        sticky == \E i \in 1..(drop - 1) : P[i] = 1
        R == IF guard = 1 /\ (sticky \/ mant[1] = 1) THEN IncBits(mant) ELSE mant
    IN  BitsValue(SubSeq(R, 53 - drop + 1, Len(R)))

\* a split at 0.7 of the number of pairs
num_train_of_pairs(n_blocks) == IntOfDoubleProduct07(n_blocks - 1)

\* line 857
num_train_blocks(n_blocks) == IntOfDoubleProduct07(n_blocks)

\* lines 844-847: the coefficient files iFreq.. appended to coeff_list
RECURSIVE LoadCoeffs(_, _, _, _, _)
LoadCoeffs(s, n, files, iFreq, coeff_list) ==
    IF iFreq >= s.n_freq THEN [exc |-> NoExc, list |-> coeff_list]
    ELSE LET file_a_k == CoeffsName(n, iFreq)
         IN  IF ~Exists(files, file_a_k)
             THEN [exc |-> Exc("FileNotFoundError", "coeffs", file_a_k),
                   list |-> coeff_list]
             ELSE LoadCoeffs(s, n, files, iFreq + 1, Append(coeff_list, files[file_a_k]))

\* line 850: np.moveaxis(np.asarray(coeff_list), 0, 1) of matrices of one
\* shape: entry [b][f] is row b of the matrix of frequency f
MoveAxis(coeff_list) ==
    [b \in 1..Len(coeff_list[1]) |-> [f \in 1..Len(coeff_list) |-> coeff_list[f][b]]]

\* a Python slice seq[i:j] with 0 <= i, j
Slice(seq, i, j) ==
    LET lo == IF i > Len(seq) THEN Len(seq) ELSE i
        hi == IF j > Len(seq) THEN Len(seq) ELSE j
    IN  IF hi <= lo THEN <<>> ELSE SubSeq(seq, lo + 1, hi)

NoEmulator ==
    [exc |-> NoExc, built |-> FALSE,
     training_data_ip |-> <<>>, training_data_op |-> <<>>,
     testing_data_ip |-> <<>>, testing_data_op |-> <<>>, lstm_filepath |-> <<>>]

\* lines 835-895 and generate_lstm_model's line 928
build_emulator(s, p, files) ==
    LET n == NModesSave(s, p)
        c == LoadCoeffs(s, n, files, 0, <<>>)
    IN  IF c.exc.type # "none" THEN [NoEmulator EXCEPT !.exc = c.exc]
        ELSE IF c.list = <<>>
        THEN [NoEmulator EXCEPT !.exc = Exc("AxisError", "moveaxis", <<>>)]
        ELSE LET emulator_prep_data == MoveAxis(c.list)
             IN  IF s.n_blocks > Len(emulator_prep_data)
                 THEN [NoEmulator EXCEPT !.exc = Exc("IndexError", "input_block", <<>>)]
                 ELSE LET input_block == [k \in 1..(s.n_blocks - 1) |->
                                              emulator_prep_data[k]]
                          output_block == [k \in 1..(s.n_blocks - 1) |->
                                              emulator_prep_data[k + 1]]
                          num == num_train_blocks(s.n_blocks)
                      IN  [exc |-> NoExc, built |-> TRUE,
                           training_data_ip |-> Slice(input_block, 0, num),
                           training_data_op |-> Slice(output_block, 0, num),
                           testing_data_ip |-> Slice(input_block, num, Len(input_block)),
                           testing_data_op |-> Slice(output_block, num, Len(output_block)),
                           lstm_filepath |-> <<"emulator_weights.h5">>]

----------------------------------------------------------------------------
(* parse_parameters *)

\* 2**p for p >= 0
Pow2(p) == 2 ^ p

RECURSIVE NextPow2Loop(_, _, _)
NextPow2Loop(a, p, v) ==
    IF v < a THEN NextPow2Loop(a, p + 1, Pow2(p)) ELSE p

\* _nextpow2(a), a >= 0: the loop counter at exit
nextpow2(a) == NextPow2Loop(a, 0, 0)

\* len(np.arange(0, N, 1)) for a rational N
ArangeLen(N) == IF N[1] > 0 THEN RatCeil(N) ELSE 0

\* _hamming_window(N): sample i stands for 0.54 - 0.46*cos(2*pi*i/(N-1)),
\* kept as the fraction i/(N-1) = p/q (q = 0: numpy's nan or inf)
hamming_window(N) ==
    [i \in 1..ArangeLen(N) |->
        [k |-> "hamming", p |-> (i - 1) * N[2], q |-> N[1] - N[2]]]

\* a user window: the coefficients themselves
UserWindow(a) == [i \in 1..Len(a) |-> [k |-> "coef", p |-> a[i][1], q |-> a[i][2]]]

RECURSIVE Log2Up(_, _)
\* the largest k >= 0 with 10 * 2^k <= nt, for nt >= 10
Log2Up(nt, k) == IF 10 * Pow2(k + 1) <= nt THEN Log2Up(nt, k + 1) ELSE k

RECURSIVE Log2Down(_, _)
\* the smallest j >= 1 with 10 <= nt * 2^j, for 0 < nt < 10
Log2Down(nt, j) == IF 10 <= nt * Pow2(j) THEN j ELSE Log2Down(nt, j + 1)

\* 2**(np.floor(np.log2(nt/10))); log2(0) is -inf and 2**-inf is 0
DefaultNDFT(nt) ==
    IF nt = 0 THEN Rat(0, 1)
    ELSE IF nt >= 10 THEN Rat(Pow2(Log2Up(nt, 0)), 1)
    ELSE Rat(1, Pow2(Log2Down(nt, 1)))

\* the locals of parse_parameters before its first statement
Env0 ==
    [exc |-> NoExc, bound |-> {},
     window |-> <<>>, window_name |-> "", n_DFT |-> Rat(0, 1),
     weights |-> <<>>, weights_name |-> "",
     n_overlap |-> 0, n_blocks |-> 0, nan_blocks |-> FALSE,
     x_mean |-> [kind |-> "", num |-> <<>>, den |-> 1], mean_name |-> "",
     freq |-> <<>>, n_freq |-> 0, warnings |-> <<>>, reads |-> <<>>]

\* an exception that carries no arguments
RaiseBare(e, type, at, args) == [e EXCEPT !.exc = Exc(type, at, <<>>)]

Raise(e, type, at, args) == [e EXCEPT !.exc = Exc(type, at, args)]

\* lines 323-341
ParseWindow(e, s, p) ==
    LET w == p.n_FFT
    IN  IF w.t = "str"
        THEN IF Lower(w.s) = "default"
             THEN [e EXCEPT !.n_DFT = DefaultNDFT(s.nt),
                            !.window = hamming_window(DefaultNDFT(s.nt)),
                            !.window_name = "hamming",
                            !.bound = @ \cup {"n_DFT", "window", "window_name"}]
             ELSE Raise(e, "ValueError", "window", <<w.s, "not recognized.">>)
        ELSE LET size == IF w.t = "int" THEN 1 ELSE Len(w.a)
                 value == IF w.t = "int" THEN Rat(w.n, 1) ELSE w.a[1]
             IN  IF size = 1
                 THEN [e EXCEPT !.n_DFT = value,
                                !.window = hamming_window(value),
                                !.window_name = "hamming",
                                !.bound = @ \cup {"n_DFT", "window", "window_name"}]
                 ELSE IF size = Pow2(nextpow2(size))
                 THEN [e EXCEPT !.n_DFT = Rat(size, 1),
                                !.window = UserWindow(w.a),
                                !.window_name = "user_specified",
                                !.bound = @ \cup {"n_DFT", "window", "window_name"}]
                 ELSE [e EXCEPT !.n_DFT = Rat(size, 1),
                                !.window = UserWindow(w.a),
                                !.window_name = "user_specified",
                                !.bound = @ \cup {"n_DFT", "window", "window_name"}]

\* lines 344-354
ParseWeights(e, s, p) ==
    LET w == p.weights
    IN  IF w.t = "ndarray"
        THEN IF Len(w.a) # s.nx * s.nv
             THEN Raise(e, "ValueError", "weights",
                        <<"parameter weights must have the same spatial dimensions as data.">>)
             ELSE [e EXCEPT !.weights = w.a,
                            !.weights_name = "user-specified",
                            !.bound = @ \cup {"weights", "weights_name"}]
        ELSE [e EXCEPT !.weights = [i \in 1..(s.nx * s.nv) |-> 1],
                       !.weights_name = "uniform",
                       !.bound = @ \cup {"weights", "weights_name"}]

\* lines 357-364
ParseOverlap(e, s, p) ==
    LET o == p.n_overlap
    IN  IF o.t = "str"
        THEN IF Lower(o.s) = "default"
             THEN [e EXCEPT !.n_overlap = e.n_DFT[1] \div (2 * e.n_DFT[2]),
                            !.bound = @ \cup {"n_overlap"}]
             ELSE Raise(e, "ValueError", "overlap", <<o.s, "not recognized.">>)
        ELSE IF RatLess(Rat(e.n_DFT[1] - e.n_DFT[2], e.n_DFT[2]), Rat(o.n, 1))
             THEN Raise(e, "ValueError", "overlap", <<"Overlap is too large">>)
             ELSE [e EXCEPT !.n_overlap = o.n, !.bound = @ \cup {"n_overlap"}]

\* lines 367-376: np.floor((nt - n_overlap) / (n_DFT - n_overlap)), the
\* feasibility test on the uncast values, then the int() casts
ParseBlocks(e, s, p) ==
    LET num == (s.nt - e.n_overlap) * e.n_DFT[2]
        den == e.n_DFT[1] - e.n_overlap * e.n_DFT[2]
        nan == den = 0
        n_blocks == IF nan THEN 0 ELSE num \div den
        e1 == [e EXCEPT !.n_blocks = n_blocks, !.nan_blocks = nan,
                        !.bound = @ \cup {"n_blocks"}]
    IN  IF RatLess(e.n_DFT, Rat(4, 1)) \/ (~nan /\ n_blocks < 2)
        THEN Raise(e1, "ValueError", "feasibility",
                   <<"Spectral estimation parameters not meaningful.">>)
        ELSE [e1 EXCEPT !.n_DFT = Rat(RatInt(e.n_DFT), 1)]

\* np.sum(x_data, axis=0)
RECURSIVE SumFrames(_, _)
SumFrames(frames, width) ==
    IF frames = <<>> THEN [i \in 1..width |-> 0]
    ELSE LET rest == SumFrames(Tail(frames), width)
         IN  [i \in 1..width |-> Head(frames)[i] + rest[i]]

\* lines 385-390: the loop over the n_blocks chunks, from chunk iBlk on
RECURSIVE LongtimeLoop(_, _, _, _, _)
LongtimeLoop(s, iBlk, n_blocks, split_block, acc) ==
    IF iBlk >= n_blocks \/ acc.exc.type # "none" THEN acc
    ELSE LET lb == iBlk * split_block
             ub == lb + split_block
             x_data == data_handler(s.data, lb, ub)
         IN  IF x_data.exc.type # "none"
             THEN [acc EXCEPT !.exc = x_data.exc]
             ELSE LongtimeLoop(s, iBlk + 1, n_blocks, split_block,
                    [acc EXCEPT !.x_sum = [i \in 1..Len(@) |->
                                             @[i] + SumFrames(x_data.a, Len(@))[i]],
                                !.reads = Append(@, <<lb, ub>>)])

\* lines 382-397
LongtimeMean(e, s) ==
    LET split_block == s.nt \div e.n_blocks
        split_res == s.nt % e.n_blocks
        acc0 == [exc |-> NoExc, x_sum |-> [i \in 1..(s.nx * s.nv) |-> 0], reads |-> <<>>]
        acc1 == LongtimeLoop(s, 0, e.n_blocks, split_block, acc0)
        x_data == data_handler(s.data, s.nt - split_res, s.nt)
    IN  IF acc1.exc.type # "none"
        THEN [e EXCEPT !.exc = [acc1.exc EXCEPT !.at = "mean"], !.reads = acc1.reads]
        ELSE IF x_data.exc.type # "none"
        THEN [e EXCEPT !.exc = [x_data.exc EXCEPT !.at = "mean"], !.reads = acc1.reads]
        ELSE [e EXCEPT !.x_mean = [kind |-> "field",
                                   num |-> [i \in 1..(s.nx * s.nv) |->
                                      acc1.x_sum[i] + SumFrames(x_data.a, s.nx * s.nv)[i]],
                                   den |-> s.nt],
                       !.mean_name = "longtime",
                       !.reads = Append(acc1.reads, <<s.nt - split_res, s.nt>>),
                       !.bound = @ \cup {"x_mean", "mean_name"}]

\* the policy named zero selected by the keyword zero
IsZeroKeywordByName(s) == Lower(s) = "zero"

\* line 401: the keyword of the policy named zero
IsZeroKeyword(s) == Lower(s) = "0"

\* lines 379-412
ParseMean(e, s, p) ==
    LET m == p.mean
    IN  IF m.t = "str"
        THEN IF Lower(m.s) = "longtime" THEN LongtimeMean(e, s)
             ELSE IF Lower(m.s) = "blockwise"
             THEN [e EXCEPT !.x_mean = [kind |-> "scalar", num |-> <<0>>, den |-> 1],
                            !.mean_name = "blockwise",
                            !.bound = @ \cup {"x_mean", "mean_name"}]
             ELSE IF IsZeroKeyword(m.s)
             THEN [e EXCEPT !.x_mean = [kind |-> "scalar", num |-> <<0>>, den |-> 1],
                            !.mean_name = "zero",
                            !.warnings = Append(@,
                               "No mean subtracted. Consider providing longtime mean."),
                            !.bound = @ \cup {"x_mean", "mean_name"}]
             ELSE Raise(e, "ValueError", "mean", <<m.s, "not recognized.">>)
        ELSE IF m.t = "ndarray"
        THEN [e EXCEPT !.x_mean = [kind |-> "user", num |-> m.a, den |-> 1],
                       !.mean_name = "user-specified",
                       !.bound = @ \cup {"x_mean", "mean_name"}]
        ELSE Raise(e, "ValueError", "mean",
                   <<m.t, "data type not recognized. ",
                     "parameter mean can either be a str or a numpy.ndarray">>)

\* line 415: np.arange(0, n_DFT, 1) / dt / n_DFT
FullAxis(n, dt) == [k \in 1..n |-> Rat(k - 1, n * dt)]

\* a one-sided axis that stops at floor(n_DFT/2)
OneSidedAxisFloor(n, dt) == [k \in 1..(n \div 2 + 1) |-> Rat(k - 1, n * dt)]

\* line 417: np.arange(0, np.ceil(n_DFT/2)+1, 1) / n_DFT / dt
OneSidedAxis(n, dt) == [k \in 1..(RatCeil(Rat(n, 2)) + 1) |-> Rat(k - 1, n * dt)]

\* line 420: freq[int(n_DFT/2)+1:] -= 1/dt
WrapFrom(freq, start, n, dt) ==
    [k \in 1..Len(freq) |->
        IF k - 1 >= start THEN Rat(freq[k][1] - n, n * dt) ELSE freq[k]]

\* lines 415-423.  Under true division (line 5) the bound (n_DFT+1)/2+1 of the
\* slice at line 422 is a float, and a float slice bound raises TypeError.
ParseFreq(e, s, p) ==
    LET n == e.n_DFT[1]
        freq == FullAxis(n, p.dt)
    IN  IF p.isreal
        THEN [e EXCEPT !.freq = OneSidedAxis(n, p.dt),
                       !.n_freq = Len(OneSidedAxis(n, p.dt)),
                       !.bound = @ \cup {"freq", "n_freq"}]
        ELSE IF n % 2 = 0
        THEN [e EXCEPT !.freq = WrapFrom(freq, RatInt(Rat(n, 2)) + 1, n, p.dt),
                       !.n_freq = Len(WrapFrom(freq, RatInt(Rat(n, 2)) + 1, n, p.dt)),
                       !.bound = @ \cup {"freq", "n_freq"}]
        ELSE Raise([e EXCEPT !.freq = freq, !.bound = @ \cup {"freq"}],
                   "TypeError", "freq", <<"slice indices must be integers">>)

\* lines 312-441: the stages in source order; a raise ends the call
parse_parameters(s, p) ==
    LET e1 == ParseWindow(Env0, s, p)
        e2 == IF Raised(e1) THEN e1 ELSE ParseWeights(e1, s, p)
        e3 == IF Raised(e2) THEN e2 ELSE ParseOverlap(e2, s, p)
        e4 == IF Raised(e3) THEN e3 ELSE ParseBlocks(e3, s, p)
        e5 == IF Raised(e4) THEN e4 ELSE ParseMean(e4, s, p)
        e6 == IF Raised(e5) THEN e5 ELSE ParseFreq(e5, s, p)
    IN  e6



----------------------------------------------------------------------------
(* The object and the inputs of parse_parameters *)

StrNFFT(s) == [t |-> "str", s |-> s, n |-> 0, a |-> <<>>]
IntNFFT(n) == [t |-> "int", s |-> "", n |-> n, a |-> <<>>]
ArrNFFT(a) == [t |-> "ndarray", s |-> "", n |-> 0, a |-> a]

Coefs == {Rat(1, 2), Rat(5, 1), Rat(9, 2)}

WindowArrays ==
    {[i \in 1..L |-> c] : L \in 1..MaxWinLen, c \in Coefs}
        \cup {[i \in 1..L |-> Rat(i, L)] : L \in 2..MaxWinLen}

NFFTValues ==
    {StrNFFT(s) : s \in {"default", "DEFAULT", "hann"}}
        \cup {IntNFFT(n) : n \in 3..MaxNFFT}
        \cup {ArrNFFT(a) : a \in WindowArrays}

StrOverlap(s) == [t |-> "str", s |-> s, n |-> 0]
IntOverlap(n) == [t |-> "int", s |-> "", n |-> n]

OverlapValues ==
    {StrOverlap(s) : s \in {"default", "Default", "half"}}
        \cup {IntOverlap(n) : n \in (-1)..MaxNFFT}

NoWeights == [t |-> "None", a |-> <<>>]

\* weights of n elements, as a numpy array or as a plain list
WeightsValues ==
    {NoWeights} \cup {[t |-> k, a |-> [i \in 1..n |-> i + 1]] :
                         k \in {"ndarray", "list"}, n \in 0..MaxWeights}

StrMean(s) == [t |-> "str", s |-> s, a |-> <<>>]

MeanValues ==
    {StrMean(s) : s \in {"longtime", "LongTime", "blockwise", "BLOCKWISE",
                          "0", "zero", "Zero", "median"}}
        \cup {[t |-> "ndarray", s |-> "", a |-> <<3>>],
              [t |-> "int", s |-> "", a |-> <<>>]}

\* a field equal to c at every point and time
ConstantData(len, width, c) ==
    [a |-> [t \in 1..len |-> [i \in 1..width |-> c]], ndim |-> 3]

\* a field that is 1 in frame j (0-based) and 0 elsewhere
OneHotData(len, width, j) ==
    [a |-> [t \in 1..len |-> [i \in 1..width |-> IF t = j + 1 THEN 1 ELSE 0]],
     ndim |-> 3]

\* __init__, lines 34-70: the fields set before parse_parameters is called;
\* n_blocks, n_freq and weights are set from its result (lines 81-88)
Object(nt, nx, nv, data, handler) ==
    [nt |-> nt, nx |-> nx, nv |-> nv, xdim |-> data.ndim - 2, data |-> data,
     handler |-> handler, n_blocks |-> 0, n_freq |-> 0, weights |-> <<>>]

\* the key n_modes_save of params: absent, or an integer
NoModes == [t |-> "absent", n |-> 0]

IntModes(n) == [t |-> "int", n |-> n]

Params(n_FFT, n_overlap, weights, mean, dt, isreal) ==
    [n_FFT |-> n_FFT, n_overlap |-> n_overlap, weights |-> weights,
     mean |-> mean, dt |-> dt, isreal |-> isreal, n_modes_save |-> NoModes]

Idle == [exc |-> NoExc]

NoProjection == [exc |-> NoExc, done |-> FALSE]

NoCheck == [called |-> FALSE, n_blocks |-> 0, n_freq |-> 0, value |-> FALSE]

InitRest ==
    /\ pc = "init"
    /\ ret = Env0
    /\ req = [t_0 |-> 0, t_end |-> 0]
    /\ X = Idle
    /\ fs = << >>
    /\ present = NoCheck
    /\ proj = NoProjection
    /\ emu = NoEmulator

\* the resolver over lengths, windows and overlaps
InitResolve ==
    /\ \E nt \in (0..MaxNt) \cup {DefaultNt} :
          self = Object(nt, 1, 1, ConstantData(nt, 1, 1), "default")
    /\ \E w \in NFFTValues, o \in OverlapValues, isreal \in BOOLEAN, dt \in {1, 2},
          m \in {"blockwise", "longtime"} :
          params = Params(w, o, NoWeights, StrMean(m), dt, isreal)
    /\ InitRest

\* the resolver over weights and data shapes
InitWeights ==
    /\ \E nt \in {MaxNt, DefaultNt}, nx \in 1..MaxNx, nv \in 1..MaxNv :
          self = Object(nt, nx, nv, ConstantData(nt, nx * nv, 1), "default")
    /\ \E w \in NFFTValues, wt \in WeightsValues,
          o \in {StrOverlap("default"), StrOverlap("half"), IntOverlap(0)} :
          params = Params(w, o, wt, StrMean("blockwise"), 1, TRUE)
    /\ InitRest

\* the resolver over mean policies
InitPolicy ==
    /\ \E nt \in 0..MaxNt :
          self = Object(nt, 1, 1, ConstantData(nt, 1, 1), "default")
    /\ \E w \in {StrNFFT("default"), StrNFFT("hann")} \cup {IntNFFT(n) : n \in 3..MaxNFFT},
          o \in {StrOverlap("default"), StrOverlap("half")}
                   \cup {IntOverlap(n) : n \in 0..MaxNFFT},
          m \in MeanValues, isreal \in BOOLEAN :
          params = Params(w, o, NoWeights, m, 1, isreal)
    /\ InitRest

\* the long-time mean over data: constant fields and fields with a single
\* nonzero frame, held in an array of nt frames or of one frame more
InitMean ==
    /\ \E nt \in 0..MaxNt, extra \in {0, 1}, nx \in 1..MaxNx :
          \E data \in {ConstantData(nt + extra, nx, c) : c \in {1, 2}}
                        \cup {OneHotData(nt + extra, nx, j) : j \in 0..(nt + extra - 1)} :
             self = Object(nt, nx, 1, data, "default")
    /\ \E w \in {IntNFFT(n) : n \in 4..MaxNFFT},
          o \in {StrOverlap("default")} \cup {IntOverlap(n) : n \in 0..MaxNFFT},
          m \in {"longtime", "LongTime"} :
          params = Params(w, o, NoWeights, StrMean(m), 1, TRUE)
    /\ InitRest

\* __init__, lines 81-88: the call of parse_parameters and the fields set from
\* what it returns
ParseParameters ==
    /\ pc = "init"
    /\ ret' = parse_parameters(self, params)
    /\ self' = IF Raised(ret') THEN self
               ELSE [self EXCEPT !.n_blocks = ret'.n_blocks, !.n_freq = ret'.n_freq,
                                 !.weights = ret'.weights]
    /\ pc' = "parsed"
    /\ UNCHANGED <<params, req, X, fs, present, proj, emu>>

NextParse == ParseParameters

SpecResolve == InitResolve /\ [][NextParse]_vars

SpecWeights == InitWeights /\ [][NextParse]_vars

SpecPolicy == InitPolicy /\ [][NextParse]_vars

SpecMean == InitMean /\ [][NextParse]_vars

----------------------------------------------------------------------------
(* get_data *)

\* an array whose frame t holds base + t at every point
RampData(len, width, base) ==
    [a |-> [t \in 1..len |-> [i \in 1..width |-> base + t - 1]], ndim |-> 3]

InitData ==
    /\ \E len \in 1..MaxFrames, base \in {0, 10}, nv \in 1..MaxNv,
          handler \in {"default", "read_data"} :
          self = Object(len, 1, nv, RampData(len, nv, base), handler)
    /\ params = Params(IntNFFT(4), IntOverlap(0), NoWeights, StrMean("blockwise"), 1, TRUE)
    /\ InitRest

\* a call of get_data(t_0, t_end)
GetData ==
    /\ pc \in {"init", "got"}
    /\ \E t_0 \in 0..(MaxFrames + 1), t_end \in 0..(MaxFrames + 1) :
          /\ req' = [t_0 |-> t_0, t_end |-> t_end]
          /\ X' = get_data(self, t_0, t_end)
    /\ pc' = "got"
    /\ UNCHANGED <<self, params, ret, fs, present, proj, emu>>

NextData == GetData

SpecData == InitData /\ [][NextData]_vars

----------------------------------------------------------------------------
(* _are_blocks_present *)

\* the four digits of an index below 10000
Pad4(n) == <<n \div 1000, (n \div 100) % 10, (n \div 10) % 10, n % 10>>

\* the index of four digits
PadValue(d) == ((d[1] * 10 + d[2]) * 10 + d[3]) * 10 + d[4]

\* the FFT block artifact of the interface: fft_block{b:04d}_freq{f:04d}.npy
FftArtifact(b, f) == <<"fft_block", Pad4(b), "_freq", Pad4(f), ".npy">>

\* the same indices written without padding: a file of another name
Unpadded(b, f) == <<"fft_block", Digits(b), "_freq", Digits(f), ".npy">>

CacheGrid == (0..(MaxCacheBlocks - 1)) \X (0..(MaxCacheFreq - 1))

\* the directory after an FFT stage that wrote all artifacts of the grid but
\* those of `missing`, with (stray) or without a misnamed file for each
CacheFiles(missing, stray) ==
    LET names == {FftArtifact(k[1], k[2]) : k \in CacheGrid \ missing}
                    \cup (IF stray THEN {Unpadded(k[1], k[2]) : k \in missing} ELSE {})
    IN  [n \in names |-> <<>>]

InitCache ==
    /\ self = Object(1, 1, 1, ConstantData(1, 1, 1), "default")
    /\ params = Params(IntNFFT(4), IntOverlap(0), NoWeights, StrMean("blockwise"), 1, TRUE)
    /\ pc = "init" /\ ret = Env0 /\ req = [t_0 |-> 0, t_end |-> 0] /\ X = Idle
    /\ present = NoCheck /\ proj = NoProjection /\ emu = NoEmulator
    /\ \E missing \in {m \in SUBSET CacheGrid : Cardinality(m) <= MaxMissing},
          stray \in BOOLEAN :
          fs = CacheFiles(missing, stray)

\* a call of _are_blocks_present(n_blocks, n_freq, save_dir_blocks)
AreBlocksPresent ==
    /\ pc \in {"init", "checked"}
    /\ \E n_blocks \in 0..MaxCacheBlocks, n_freq \in 0..MaxCacheFreq :
          present' = [called |-> TRUE, n_blocks |-> n_blocks, n_freq |-> n_freq,
                      value |-> are_blocks_present(n_blocks, n_freq, fs)]
    /\ pc' = "checked"
    /\ UNCHANGED <<self, params, ret, req, X, fs, proj, emu>>

NextCache == AreBlocksPresent

SpecCache == InitCache /\ [][NextCache]_vars

----------------------------------------------------------------------------
(* get_coefficients and build_emulator over a directory of artifacts *)

\* the value the FFT stage stored for block b at frequency f and point x
QValue(b, f, x) == <<1 + b + 20 * x + 50 * f, x - b>>

\* a mode artifact of nx rows and n columns in C order: column m is the m-th
\* unit vector, or zero from column nx on
IdentityPadded(nx, n) ==
    [k \in 1..(nx * n) |-> IF (k - 1) \div n = (k - 1) % n THEN <<1, 0>> ELSE <<0, 0>>]

\* a mode artifact of complex entries
PatternModes(nx, n, f) == [k \in 1..(nx * n) |-> <<k + f, 1 - k>>]

\* the artifact left out of a directory: none, the block artifact of (b, f)
\* or the mode artifact of f
MissingChoices(n_blocks, n_freq) ==
    {[kind |-> "none", b |-> 0, f |-> 0]}
        \cup {[kind |-> "fft", b |-> b, f |-> f] :
                 b \in 0..(n_blocks - 1), f \in 0..(n_freq - 1)}
        \cup {[kind |-> "modes", b |-> 0, f |-> f] : f \in 0..(n_freq - 1)}

\* the directory after the FFT and mode stages: the block artifacts of
\* length nx and the mode artifacts of nx x n entries, less the one left out
ArtifactFiles(n_blocks, n_freq, nx, n, psi, missing) ==
    LET blocks == {FftArtifact(b, f) : b \in 0..(n_blocks - 1), f \in 0..(n_freq - 1)}
                     \ (IF missing.kind = "fft"
                        THEN {FftArtifact(missing.b, missing.f)} ELSE {})
        modes == {ModesName(n, f) : f \in 0..(n_freq - 1)}
                     \ (IF missing.kind = "modes" THEN {ModesName(n, missing.f)} ELSE {})
    IN  [name \in blocks \cup modes |->
            IF name[1] = "fft_block"
            THEN [x \in 1..nx |-> QValue(PadValue(name[2]), PadValue(name[4]), x - 1)]
            ELSE IF psi = "identity" THEN IdentityPadded(nx, n)
            ELSE PatternModes(nx, n, PadValue(name[4]))]

\* the object after __init__ (lines 81-88) resolved n_blocks, n_freq, weights
Resolved(nx, nv, n_blocks, n_freq, weights) ==
    [Object(n_blocks * 4, nx, nv, ConstantData(1, nx, 1), "default")
        EXCEPT !.n_blocks = n_blocks, !.n_freq = n_freq, !.weights = weights]

InitEmulation ==
    /\ \E nx \in 1..MaxNx, nv \in 1..MaxNv, n_blocks \in 2..MaxBlocks,
          n_freq \in 1..MaxProjFreq, user \in BOOLEAN,
          modes \in {NoModes, IntModes(1), IntModes(3)},
          psi \in {"identity", "pattern"} :
       \E missing \in MissingChoices(n_blocks, n_freq) :
          /\ self = Resolved(nx, nv, n_blocks, n_freq,
                             [i \in 1..(nx * nv) |-> IF user THEN i + 1 ELSE 1])
          /\ params = [Params(IntNFFT(4), IntOverlap(0), NoWeights, StrMean("blockwise"),
                              1, TRUE) EXCEPT !.n_modes_save = modes]
          /\ fs = ArtifactFiles(n_blocks, n_freq, nx, NModesSave(self, params), psi, missing)
    /\ pc = "init" /\ ret = Env0 /\ req = [t_0 |-> 0, t_end |-> 0] /\ X = Idle
    /\ present = NoCheck /\ proj = NoProjection /\ emu = NoEmulator

\* a call of get_coefficients()
GetCoefficients ==
    /\ pc \in {"init", "checked", "projected"}
    /\ LET r == get_coefficients(self, params, fs)
       IN  /\ fs' = r.files
           /\ proj' = [exc |-> r.exc, done |-> TRUE]
    /\ pc' = "projected"
    /\ UNCHANGED <<self, params, ret, req, X, present, emu>>

\* a call of build_emulator()
BuildEmulator ==
    /\ pc \in {"init", "projected"}
    /\ emu' = build_emulator(self, params, fs)
    /\ pc' = "built"
    /\ UNCHANGED <<self, params, ret, req, X, fs, present, proj>>

\* the cache check on the object's own n_blocks, n_freq and directory
CheckBlocks ==
    /\ pc = "init"
    /\ present' = [called |-> TRUE, n_blocks |-> self.n_blocks, n_freq |-> self.n_freq,
                   value |-> are_blocks_present(self.n_blocks, self.n_freq, fs)]
    /\ pc' = "checked"
    /\ UNCHANGED <<self, params, ret, req, X, fs, proj, emu>>

NextPipeline == CheckBlocks \/ GetCoefficients

\* the cache check followed by the projector; nothing removes a file
SpecPipeline == InitEmulation /\ [][NextPipeline]_vars

NextEmulation == GetCoefficients \/ BuildEmulator

SpecEmulation == InitEmulation /\ [][NextEmulation]_vars

----------------------------------------------------------------------------
(* build_emulator over the coefficient artifacts of a long record *)

\* the coefficient of block b and mode m at frequency f
CoeffValue(b, f, m) == <<b + 1, 10 * f + m>>

\* the directory after get_coefficients: for each frequency but those lost a
\* matrix of n_blocks rows and n columns
CoefficientFiles(n_blocks, n_freq, n, lost) ==
    [name \in {CoeffsName(n, f) : f \in 0..(n_freq - 1 - lost)} |->
        [b \in 1..n_blocks |-> [m \in 1..n |-> CoeffValue(b - 1, PadValue(name[4]), m - 1)]]]

InitSplit ==
    /\ \E n_blocks \in 2..MaxSplitBlocks, n_freq \in 1..MaxProjFreq,
          n \in {1, 3}, lost \in {0, 1} :
          /\ self = Resolved(1, 1, n_blocks, n_freq, <<1>>)
          /\ params = [Params(IntNFFT(4), IntOverlap(0), NoWeights, StrMean("blockwise"),
                              1, TRUE) EXCEPT !.n_modes_save = IntModes(n)]
          /\ fs = CoefficientFiles(n_blocks, n_freq, n, lost)
    /\ pc = "projected" /\ ret = Env0 /\ req = [t_0 |-> 0, t_end |-> 0] /\ X = Idle
    /\ present = NoCheck /\ proj = [exc |-> NoExc, done |-> TRUE] /\ emu = NoEmulator

NextSplit == BuildEmulator

SpecSplit == InitSplit /\ [][NextSplit]_vars

----------------------------------------------------------------------------
(* get_modes_at_freq over the modes a fit left behind *)

\* self._modes after a fit: None, the dictionary frequency index -> mode
\* file, or a value of another type
ModesValues(n_modes_saved, n_freq) ==
    {[t |-> "None", d |-> <<>>], [t |-> "list", d |-> <<>>],
     [t |-> "dict", d |-> [f \in 0..(n_freq - 1) |-> ModesName(n_modes_saved, f)]]}

\* the object with the fields a fit sets
Fitted(nx, n_freq, n_modes_saved, modes) ==
    [n_modes_saved |-> n_modes_saved, modes |-> modes]
        @@ Resolved(nx, 1, 2, n_freq, [i \in 1..nx |-> 1])

InitModes ==
    /\ \E nx \in 1..MaxNx, n_freq \in 1..MaxProjFreq, n \in 1..MaxModes :
          /\ \E modes \in ModesValues(n, n_freq) : self = Fitted(nx, n_freq, n, modes)
          /\ \E lost \in BOOLEAN :
                fs = [name \in {ModesName(n, f) : f \in (IF lost THEN 1 ELSE 0)..(n_freq - 1)}
                         |-> PatternModes(nx, n, PadValue(name[4]))]
    /\ params = Params(IntNFFT(4), IntOverlap(0), NoWeights, StrMean("blockwise"), 1, TRUE)
    /\ pc = "init" /\ ret = Env0 /\ req = [freq_idx |-> 0, avail |-> 0]
    /\ X = [exc |-> NoExc, loaded |-> <<>>, m |-> <<>>]
    /\ present = NoCheck /\ proj = NoProjection /\ emu = NoEmulator

\* a call of get_modes_at_freq(freq_idx) with avail bytes of memory free
GetModesAtFreq ==
    /\ pc \in {"init", "modes"}
    /\ \E freq_idx \in 0..MaxProjFreq, units \in 0..MaxAvailUnits :
          /\ req' = [freq_idx |-> freq_idx, avail |-> 16 * units]
          /\ X' = get_modes_at_freq(self, freq_idx, 16 * units, fs)
    /\ pc' = "modes"
    /\ UNCHANGED <<self, params, ret, fs, present, proj, emu>>

NextModes == GetModesAtFreq

SpecModes == InitModes /\ [][NextModes]_vars

----------------------------------------------------------------------------
(* Properties of parse_parameters *)

\* the call has run and no stage before the mean selection raised
MeanReached ==
    pc = "parsed" /\ ret.exc.at \notin {"window", "weights", "overlap", "feasibility"}

\* the call has run and no stage before the frequency axis raised
FreqReached == MeanReached /\ ret.exc.at # "mean"

\* the call has returned a configuration
Returned == pc = "parsed" /\ ~Raised(ret)

\* C1: whenever parse_parameters returns, the returned integers satisfy
\* n_blocks = floor((nt - n_overlap)/(n_DFT - n_overlap)), n_blocks >= 2,
\* n_DFT >= 4 and n_overlap < n_DFT (any other input ends in an error).
C1_BlockCount ==
    Returned =>
        /\ ret.n_DFT[2] = 1 /\ ret.n_DFT[1] >= 4
        /\ ret.n_overlap < ret.n_DFT[1]
        /\ ret.n_blocks >= 2
        /\ ret.n_blocks = (self.nt - ret.n_overlap) \div (ret.n_DFT[1] - ret.n_overlap)

\* C7: weights whose size differs from nx*nv end the call in a ValueError
\* raised before any window is resolved, and are not replaced by uniform
\* weights.
C7_WeightsMismatch ==
    (/\ pc = "parsed"
     /\ params.weights.t # "None"
     /\ Len(params.weights.a) # self.nx * self.nv) =>
        /\ ret.exc.type = "ValueError"
        /\ "window" \notin ret.bound
        /\ "weights" \notin ret.bound

\* C8: for a real signal the returned axis is freq[k] = k/(n_DFT*dt) for
\* k = 0..ceil(n_DFT/2), its length is n_freq, and n_DFT = 8, dt = 1 gives
\* [0, 1/8, 1/4, 3/8, 1/2].
C8_OneSidedAxis ==
    (Returned /\ params.isreal) =>
        LET n == ret.n_DFT[1]
            last == (n + 1) \div 2
        IN  /\ n >= 4
            /\ Len(ret.freq) = ret.n_freq
            /\ ret.n_freq = last + 1
            /\ \A k \in 0..last : RatEq(ret.freq[k + 1], Rat(k, n * params.dt))
            /\ (n = 8 /\ params.dt = 1) =>
                   /\ ret.n_freq = 5
                   /\ \A k \in 1..5 :
                         RatEq(ret.freq[k],
                               <<Rat(0, 1), Rat(1, 8), Rat(1, 4), Rat(3, 8), Rat(1, 2)>>[k])

C8_Witness ==
    Returned /\ params.isreal /\ ret.n_DFT = Rat(8, 1) /\ params.dt = 1 /\ ret.n_freq = 5

\* C9: for a complex signal and every n_DFT >= 4, even or odd, the call
\* returns n_freq = n_DFT frequencies k/(n_DFT*dt), lowered by 1/dt from index
\* floor(n_DFT/2)+1 on (even n_DFT) or (n_DFT+1)/2+1 on (odd n_DFT).
C9_TwoSidedAxis ==
    (FreqReached /\ ~params.isreal) =>
        LET n == ret.n_DFT[1]
            start == IF n % 2 = 0 THEN n \div 2 + 1 ELSE (n + 1) \div 2 + 1
        IN  /\ ~Raised(ret)
            /\ ret.n_freq = n
            /\ Len(ret.freq) = n
            /\ \A k \in 0..(n - 1) :
                  RatEq(ret.freq[k + 1],
                        IF k >= start THEN Rat(k - n, n * params.dt)
                        ELSE Rat(k, n * params.dt))

\* the true sum of the field over the time indices 0..nt-1
RECURSIVE FieldSum(_, _, _)
FieldSum(data, nt, width) ==
    IF nt = 0 THEN [i \in 1..width |-> 0]
    ELSE [i \in 1..width |-> FieldSum(data, nt - 1, width)[i] + data.a[nt][i]]

\* C3: with the policy longtime the mean is the sum of the field over the time
\* indices 0..nt-1, each taken once, divided by nt, for every nt and n_blocks
\* (also when n_blocks divides nt); a constant field c has the mean c.
C3_LongtimeMean ==
    MeanReached =>
        /\ ~Raised(ret)
        /\ ret.mean_name = "longtime"
        /\ ret.x_mean.den = self.nt
        /\ ret.x_mean.num = FieldSum(self.data, self.nt, self.nx * self.nv)
        /\ \A c \in {1, 2} :
              self.data = ConstantData(Len(self.data.a), self.nx * self.nv, c) =>
                 \A i \in 1..(self.nx * self.nv) : ret.x_mean.num[i] = c * ret.x_mean.den

\* C10 as stated: the keyword zero is accepted; it gives the scalar mean 0
\* named zero and a warning, and no error.
C10_ZeroByName ==
    (MeanReached /\ params.mean.t = "str" /\ params.mean.s = "zero") =>
        /\ ret.exc.at # "mean"
        /\ ret.x_mean = [kind |-> "scalar", num |-> <<0>>, den |-> 1]
        /\ ret.mean_name = "zero"
        /\ Len(ret.warnings) = 1

\* C10 as amended: the accepted keyword is the string 0.  It gives the scalar
\* mean 0 named zero and one warning, and the mean selection raises nothing;
\* the keyword zero (in any case) is rejected with a ValueError naming it; a
\* warning is issued in no other case.
C10_ZeroPolicy ==
    /\ (MeanReached /\ params.mean.t = "str" /\ params.mean.s = "0") =>
          /\ ret.exc.at # "mean"
          /\ ret.x_mean = [kind |-> "scalar", num |-> <<0>>, den |-> 1]
          /\ ret.mean_name = "zero"
          /\ Len(ret.warnings) = 1
    /\ (MeanReached /\ params.mean.t = "str" /\ params.mean.s \in {"zero", "Zero"}) =>
          /\ ret.exc = Exc("ValueError", "mean", <<params.mean.s, "not recognized.">>)
          /\ ret.warnings = <<>>
    /\ ret.warnings # <<>> => (params.mean.t = "str" /\ params.mean.s = "0")

C10_Witness ==
    /\ Returned
    /\ params.mean = StrMean("0")
    /\ ret.mean_name = "zero"
    /\ Len(ret.warnings) = 1

----------------------------------------------------------------------------
(* Properties of get_data and of _are_blocks_present *)

\* C2: a call with t_0 = t_end inside the data returns exactly the one frame
\* of index t_0; a call with t_0 < t_end <= len returns exactly the t_end - t_0
\* frames of indices t_0..t_end-1, in order; no call changes the data.
C2_Adapter ==
    [][pc' = "got" =>
         LET t_0 == req'.t_0
             t_end == req'.t_end
             len == Len(self.data.a)
         IN  /\ self' = self
             /\ (t_0 = t_end /\ t_0 < len) =>
                    /\ X'.exc = NoExc
                    /\ X'.a = <<self.data.a[t_0 + 1]>>
             /\ (t_0 < t_end /\ t_end <= len) =>
                    /\ X'.exc = NoExc
                    /\ Len(X'.a) = t_end - t_0
                    /\ \A k \in 0..(t_end - t_0 - 1) : X'.a[k + 1] = self.data.a[t_0 + k + 1]]_vars

C2_Witness ==
    /\ pc = "got"
    /\ req = [t_0 |-> 5, t_end |-> 5]
    /\ Len(self.data.a) = 6
    /\ X.exc = NoExc
    /\ X.a = <<self.data.a[6]>>

\* C4: the check returns TRUE exactly when the artifact of every pair (b, f),
\* b < n_blocks, f < n_freq, exists, and it leaves the directory as it was.
C4_AllOrNothing ==
    [][pc' = "checked" =>
         /\ fs' = fs
         /\ present'.value =
               (\A b \in 0..(present'.n_blocks - 1), f \in 0..(present'.n_freq - 1) :
                   FftArtifact(b, f) \in DOMAIN fs)]_vars

\* 5 of the 6 artifacts of n_blocks = 3, n_freq = 2 exist and the check says no
C4_Witness ==
    /\ pc = "checked"
    /\ present.n_blocks = 3 /\ present.n_freq = 2
    /\ Cardinality({k \in (0..2) \X (0..1) : FftArtifact(k[1], k[2]) \in DOMAIN fs}) = 5
    /\ present.value = FALSE

----------------------------------------------------------------------------
(* Properties of get_coefficients and of build_emulator *)

\* the mode artifact of every frequency is the identity-padded basis
IdentityModes ==
    \A f \in 0..(self.n_freq - 1) :
        LET name == ModesName(NModesSave(self, params), f)
        IN  name \in DOMAIN fs /\ fs[name] = IdentityPadded(self.nx, NModesSave(self, params))

UniformWeights == \A i \in DOMAIN self.weights : self.weights[i] = 1

BlocksComplete ==
    \A b \in 0..(self.n_blocks - 1), f \in 0..(self.n_freq - 1) :
        FftArtifact(b, f) \in DOMAIN fs

\* C6: with the identity-padded basis as the mode artifact of every frequency
\* and uniform weights, the projection of a single-variable object over a
\* complete set of block artifacts succeeds, and the coefficient it writes for
\* block b and mode m is the stored FFT value of block b at point m, for every
\* frequency, block and mode m < nx.
C6_RoundTrip ==
    (proj.done /\ IdentityModes /\ UniformWeights) =>
        /\ (self.nv = 1 /\ BlocksComplete) => proj.exc = NoExc
        /\ proj.exc = NoExc =>
              \A f \in 0..(self.n_freq - 1), b \in 0..(self.n_blocks - 1),
                 m \in 0..(NModesSave(self, params) - 1) :
                  m < self.nx =>
                     fs[CoeffsName(NModesSave(self, params), f)][b + 1][m + 1]
                         = fs[FftArtifact(b, f)][m + 1]

C6_Witness ==
    /\ proj.done /\ proj.exc = NoExc
    /\ IdentityModes /\ UniformWeights
    /\ self.nx = 2 /\ self.n_freq = 2 /\ self.n_blocks = 3
    /\ NModesSave(self, params) = 3
    /\ fs[CoeffsName(3, 1)][3][2] = QValue(2, 1, 1)

\* the tensor of the coefficient artifacts with the block index first
CoeffTensor ==
    [b \in 1..self.n_blocks |->
        [f \in 1..self.n_freq |-> fs[CoeffsName(NModesSave(self, params), f - 1)][b]]]

\* the pairs built: inputs are blocks 0..n_blocks-2 and outputs the blocks one
\* later, training first and testing after, nothing left out or repeated
ShiftedByOne ==
    /\ emu.training_data_ip \o emu.testing_data_ip
          = [k \in 1..(self.n_blocks - 1) |-> CoeffTensor[k]]
    /\ emu.training_data_op \o emu.testing_data_op
          = [k \in 1..(self.n_blocks - 1) |-> CoeffTensor[k + 1]]
    /\ Len(emu.training_data_ip) = Len(emu.training_data_op)

\* C5 as stated: for n_blocks = 10 there are 9 pairs shifted by one block, 6
\* of them in the training set and 3 in the testing set.
C5_SixAndThree ==
    (emu.built /\ self.n_blocks = 10) =>
        /\ ShiftedByOne
        /\ Len(emu.training_data_ip) = 6
        /\ Len(emu.testing_data_ip) = 3

\* C5: for n_blocks = 10 there are 9 pairs shifted by one block, none left out
\* or repeated; the first int(0.7 * 10) = 7 of them are the training set and
\* the other 2 the testing set.
C5_SevenAndTwo ==
    (emu.built /\ self.n_blocks = 10) =>
        /\ ShiftedByOne
        /\ Len(emu.training_data_ip) = 7
        /\ Len(emu.testing_data_ip) = 2

C5_Witness ==
    /\ emu.built /\ self.n_blocks = 10 /\ self.n_freq = 2
    /\ Len(emu.training_data_ip) + Len(emu.testing_data_ip) = 9
    /\ emu.testing_data_op[2] = CoeffTensor[10]
    /\ CoeffTensor[10] # CoeffTensor[9]

----------------------------------------------------------------------------
(* The coefficient artifacts *)

\* the coefficient artifact of frequency f
CoeffFile(f) == CoeffsName(NModesSave(self, params), f)

\* the artifact is a matrix of r rows and c columns
HasShape(m, r, c) == Len(m) = r /\ \A i \in 1..Len(m) : Len(m[i]) = c

\* C11 as stated: every coefficient artifact written has n_modes_save rows and
\* n_blocks columns.
C11_ModesFirst ==
    proj.done =>
        \A f \in 0..(self.n_freq - 1) :
            /\ proj.exc = NoExc => CoeffFile(f) \in DOMAIN fs
            /\ CoeffFile(f) \in DOMAIN fs =>
                  HasShape(fs[CoeffFile(f)], NModesSave(self, params), self.n_blocks)

\* C11: after a projection that succeeded the coefficient artifact of every
\* frequency exists, and every coefficient artifact written is a matrix of
\* n_blocks rows and n_modes_save columns: blocks along the first axis and
\* modes along the second.
C11_BlocksFirst ==
    proj.done =>
        \A f \in 0..(self.n_freq - 1) :
            /\ proj.exc = NoExc => CoeffFile(f) \in DOMAIN fs
            /\ CoeffFile(f) \in DOMAIN fs =>
                  HasShape(fs[CoeffFile(f)], self.n_blocks, NModesSave(self, params))

C11_Witness ==
    /\ proj.done /\ proj.exc = NoExc
    /\ self.n_blocks = 5 /\ self.n_freq = 2 /\ NModesSave(self, params) = 3
    /\ HasShape(fs[CoeffFile(1)], 5, 3)

----------------------------------------------------------------------------
(* Further properties of parse_parameters *)

\* C12: an n_FFT given as a sequence of coefficients, of any length from 1 on,
\* sets n_DFT to the length of the sequence and is itself the window, named
\* user_specified; a Hamming window never takes its place.
C12_VerbatimWindow ==
    (pc = "parsed" /\ params.n_FFT.t = "ndarray") =>
        /\ ret.window = UserWindow(params.n_FFT.a)
        /\ ret.window_name = "user_specified"
        /\ ret.n_DFT = Rat(Len(params.n_FFT.a), 1)

----------------------------------------------------------------------------
(* Missing artifacts *)

IsInput(name) == name[1] \in {"fft_block", "modes1to"}

\* the artifacts get_coefficients reads for frequency f, in the order read
NeededAt(f) ==
    [i \in 1..(self.n_blocks + 1) |->
        IF i <= self.n_blocks THEN FftArtifact(i - 1, f)
        ELSE ModesName(NModesSave(self, params), f)]

MissingAt(f) == {i \in 1..(self.n_blocks + 1) : NeededAt(f)[i] \notin DOMAIN fs}

\* C13: a run of get_coefficients over a directory in which an artifact it
\* needs for frequency f is missing ends in an error and writes no coefficient
\* artifact for f; when the run reaches the artifact (a single-variable
\* object) the error is the FileNotFoundError of that artifact; and no run
\* creates, removes or changes a block artifact or a mode artifact.
C13_MissingIsFatal ==
    [][pc' = "projected" =>
         /\ \A name \in DOMAIN fs :
               IsInput(name) => name \in DOMAIN fs' /\ fs'[name] = fs[name]
         /\ \A name \in DOMAIN fs' : IsInput(name) => name \in DOMAIN fs
         /\ \A f \in 0..(self.n_freq - 1) :
               MissingAt(f) # {} =>
                  /\ proj'.exc # NoExc
                  /\ CoeffFile(f) \in DOMAIN fs' => CoeffFile(f) \in DOMAIN fs
                  /\ proj'.exc.type = "FileNotFoundError" =>
                        \E i \in MissingAt(f) : proj'.exc.args = NeededAt(f)[i]
                  /\ self.nv = 1 => proj'.exc.type = "FileNotFoundError"]_vars

\* block 0 of frequency 1 is missing: the run wrote the coefficients of
\* frequency 0 and stopped at that artifact
C13_Witness ==
    /\ pc = "projected" /\ self.n_freq = 2
    /\ FftArtifact(0, 1) \notin DOMAIN fs
    /\ proj.exc.type = "FileNotFoundError" /\ proj.exc.args = FftArtifact(0, 1)
    /\ CoeffFile(0) \in DOMAIN fs /\ CoeffFile(1) \notin DOMAIN fs

----------------------------------------------------------------------------
(* Properties of get_modes_at_freq *)

\* the memory all mode artifacts take: nx * n_modes_saved complex numbers for
\* each of the n_freq frequencies
RequiredForAll == self.n_freq * self.nx * self.n_modes_saved * SizeofComplex

\* C14: with the modes in a dictionary, a call made when the memory all mode
\* artifacts take is not below the memory available raises the memory error
\* and hands no file to the loader, for every frequency index, 0 included; a
\* file is handed to the loader only when that memory is below the memory
\* available.
C14_MemoryCheck ==
    (pc = "modes" /\ self.modes.t = "dict") =>
        /\ RequiredForAll >= req.avail =>
              X.exc.type = "ValueError" /\ X.exc.at = "memory" /\ X.loaded = <<>>
        /\ X.loaded # <<>> => RequiredForAll < req.avail

\* C15: an n_FFT keyword other than default ends the call in the ValueError
\* that names it; an overlap keyword other than default, a mean keyword other
\* than longtime, blockwise and 0, and a mean that is neither a string nor an
\* array end the call in an error raised no later than their own stage, which
\* names the keyword (or the type received) whenever no earlier stage raised;
\* a call that raises leaves no configuration in the object.
C15_Unrecognized ==
    pc = "parsed" =>
        LET w == params.n_FFT
            o == params.n_overlap
            m == params.mean
            badWindow == w.t = "str" /\ Lower(w.s) # "default"
        IN  /\ badWindow =>
                  ret.exc = Exc("ValueError", "window", <<w.s, "not recognized.">>)
            /\ (o.t = "str" /\ Lower(o.s) # "default") =>
                  /\ ret.exc.at \in {"window", "weights", "overlap"}
                  /\ ret.exc.at = "window" => badWindow
                  /\ ret.exc.at = "overlap" =>
                        ret.exc = Exc("ValueError", "overlap", <<o.s, "not recognized.">>)
            /\ (m.t = "str" /\ Lower(m.s) \notin {"longtime", "blockwise", "0"}) =>
                  /\ Raised(ret) /\ ret.exc.at # "freq"
                  /\ ret.exc.at = "mean" =>
                        ret.exc = Exc("ValueError", "mean", <<m.s, "not recognized.">>)
            /\ m.t \notin {"str", "ndarray"} =>
                  /\ Raised(ret) /\ ret.exc.at # "freq"
                  /\ ret.exc.at = "mean" =>
                        ret.exc.type = "ValueError" /\ ret.exc.args[1] = m.t
            /\ Raised(ret) => self.n_blocks = 0 /\ self.n_freq = 0 /\ self.weights = <<>>

C15_Witness ==
    /\ pc = "parsed"
    /\ params.mean = StrMean("median")
    /\ params.n_overlap = IntOverlap(2)
    /\ ret.exc = Exc("ValueError", "mean", <<"median", "not recognized.">>)
    /\ self.n_blocks = 0

----------------------------------------------------------------------------
(* The inner product of get_coefficients *)

Conj(a) == <<a[1], 0 - a[2]>>

\* entry [x][m] (0-based) of the mode artifact of frequency f reshaped to
\* n_modes_save columns
PsiAt(f, x, m) ==
    fs[ModesName(NModesSave(self, params), f)][x * NModesSave(self, params) + m + 1]

\* the sum over the points 0..x-1 of conj(Psi[x, m]) * Q_hat_f[x, b] * weights[x]
RECURSIVE WeightedInner(_, _, _, _)
WeightedInner(f, b, m, x) ==
    IF x = 0 THEN <<0, 0>>
    ELSE LET q == fs[FftArtifact(b, f)][x]
             w == self.weights[x]
         IN  CAdd(WeightedInner(f, b, m, x - 1),
                  CMul(Conj(PsiAt(f, x - 1, m)), <<q[1] * w, q[2] * w>>))

\* C16: after a projection that succeeded, the coefficient artifact of every
\* frequency has n_blocks rows and n_modes_save columns and its entry (b, m)
\* is the sum over the points x of conj(Psi[x, m]) * Q_hat_f[x, b] * weights[x],
\* for complex modes as for real ones.
C16_ConjugateTranspose ==
    (proj.done /\ proj.exc = NoExc) =>
        \A f \in 0..(self.n_freq - 1) :
            /\ HasShape(fs[CoeffFile(f)], self.n_blocks, NModesSave(self, params))
            /\ \A b \in 0..(self.n_blocks - 1), m \in 0..(NModesSave(self, params) - 1) :
                  fs[CoeffFile(f)][b + 1][m + 1] = WeightedInner(f, b, m, self.nx)

----------------------------------------------------------------------------
(* The split of build_emulator *)

\* C17: for every n_blocks >= 2 the n_blocks - 1 pairs are (tensor[s],
\* tensor[s+1]) in order, the training set is the first floor(0.7 * n_blocks)
\* = floor(7 * n_blocks / 10) of them and the testing set the rest, so that
\* training followed by testing is the whole sequence of pairs.
C17_ExactSplit ==
    emu.built =>
        /\ ShiftedByOne
        /\ LET cut == (7 * self.n_blocks) \div 10
           IN  /\ Len(emu.training_data_ip) = cut
               /\ Len(emu.testing_data_ip) = self.n_blocks - 1 - cut
               /\ Len(emu.testing_data_op) = self.n_blocks - 1 - cut

----------------------------------------------------------------------------
(* The cache check and the projector *)

\* C18: once the cache check of the object's n_blocks, n_freq and directory has
\* returned TRUE, every block file of the grid exists, and a run of
\* get_coefficients after it never ends at a missing block file: a
\* FileNotFoundError of such a run is that of a mode artifact.
C18_KeysAgree ==
    (present.called /\ present.value) =>
        /\ BlocksComplete
        /\ proj.done =>
              /\ ~(proj.exc.type = "FileNotFoundError" /\ proj.exc.at = "fft_block")
              /\ proj.exc.type = "FileNotFoundError" =>
                    /\ proj.exc.at = "modes"
                    /\ proj.exc.args \notin DOMAIN fs

\* the check said yes and the run then stopped at a missing mode artifact
C18_Witness ==
    /\ pc = "projected" /\ present.called /\ present.value
    /\ self.n_blocks = 3 /\ self.n_freq = 2
    /\ proj.exc.type = "FileNotFoundError" /\ proj.exc.at = "modes"

====
